---- MODULE Spec2Model ----
(***************************************************************************)
(* Model of the language flashcard application (src/main.py): the card     *)
(* data model and its JSON snapshot, the spaced-repetition update          *)
(* update_card_status, the quiz builder create_quiz and the script main(), *)
(* which the UI framework runs from top to bottom once per interaction.    *)
(*                                                                         *)
(* Time: datetime values are natural numbers of ticks, TicksPerDay ticks   *)
(* to the day; datetime.now() is the variable now, which never decreases.  *)
(***************************************************************************)
EXTENDS Integers, Sequences, FiniteSets, TLC

\* ------------------------------------------------------------ bounds ----
TicksPerDay == 2      \* resolution of the clock
MaxNow == 3           \* the clock stops advancing here
MaxCards == 2         \* cards the session adds at most
MaxReviews == 2       \* review outcomes recorded per card at most (session)
MaxQuiz == 2          \* quiz answers submitted at most
SchedMaxReviews == 7  \* length of the outcome sequences of SchedSpec
SchedMaxNow == 3      \* clock bound of SchedSpec
SaveMaxCards == 3     \* size of the collections of SaveSpec
LoadMaxRecords == 2   \* records in the files of LoadSpec
StatsMaxCards == 2    \* size of the collections of StatsSpec
StatsMaxReviews == 4  \* reviews of a card of StatsSpec at most
QuizMaxCards == 5     \* size of the collections of QuizSpec

Words == {"casa", "gato"}
Translations == {"house", "cat"}

\* ------------------------------------------------------- state ----------
VARIABLES
    file_exists,    \* flashcards.json exists
    file,           \* its content: the list of dicts json.dump wrote
    cards,          \* the list `cards` of main() when the last run ended
    current_card,   \* st.session_state.current_card
    quiz_score,     \* st.session_state.quiz_score
    total_reviews,  \* st.session_state.total_reviews
    view_index,     \* st.session_state.view_index
    now,            \* datetime.now()
    tab1_cards,     \* the list `cards` when line 128 ran in the last run
    due_cards,      \* indices (into tab1_cards) of `due_cards` of that run
    last_outcome,   \* the update_card_status call of the last run, if any
    quiz,           \* the create_quiz call of the last run, if any
    presented,      \* what the Review Cards tab showed in the last run
    error,          \* exception that ended the last run, "none" if none
    stats,          \* the Study Statistics of the last run, if shown
    typed,          \* what Add Card found typed in the last run, if clicked
    file_cond,      \* what is in flashcards.json: "json", "partial", "denied"
    saver,          \* a save_cards call between its open() and its close()
    load_result     \* what the last load_cards call of a reader gave

vars == <<file_exists, file, cards, current_card, quiz_score, total_reviews,
          view_index, now, tab1_cards, due_cards, last_outcome, quiz,
          presented, error, stats, typed, file_cond, saver,
          load_result>>

\* the file as such and its readers and writers
iovars == <<file_cond, saver, load_result>>

\* ------------------------------------------------ python built-ins ------
pymin(a, b) == IF a <= b THEN a ELSE b
pymax(a, b) == IF a >= b THEN a ELSE b

\* seq[i] for a python list held as a 1-based sequence: negative indices
\* count from the end, anything else outside the list raises IndexError.
IndexRaises(seq, i) == ~(i \in (0 - Len(seq))..(Len(seq) - 1))
pyindex(seq, i) == IF i >= 0 THEN seq[i + 1] ELSE seq[Len(seq) + i + 1]

timedelta(days) == days * TicksPerDay

\* datetime.isoformat(): the sub-unit (microsecond) part is printed only
\* when it is not zero.  The string is modelled by its fields.
isoformat_whole(t) == <<t \div TicksPerDay>>

isoformat(t) ==
    IF t % TicksPerDay = 0
    THEN <<t \div TicksPerDay>>
    ELSE <<t \div TicksPerDay, t % TicksPerDay>>

\* datetime.fromisoformat(): a missing sub-unit part reads as zero.
fromisoformat(s) ==
    IF Len(s) = 1 THEN s[1] * TicksPerDay ELSE s[1] * TicksPerDay + s[2]

\* ------------------------------------------------------ Flashcard -------
INTERVALS == <<1, 3, 7, 14, 30, 90>>

\* Flashcard.__init__ with the defaults level=0, next_review=None.
Flashcard_due_tomorrow(word, translation, t) ==
    [word |-> word, translation |-> translation, level |-> 0,
     next_review |-> t + timedelta(1), reviews |-> 0, correct |-> 0]

Flashcard(word, translation, t) ==
    [word |-> word, translation |-> translation, level |-> 0,
     next_review |-> t, reviews |-> 0, correct |-> 0]

to_dict(card) ==
    [word |-> card.word, translation |-> card.translation,
     level |-> card.level, next_review |-> isoformat(card.next_review),
     reviews |-> card.reviews, correct |-> card.correct]

\* data['k'] raises KeyError when the key is missing; data.get('k', 0)
\* does not.
from_dict_raises(data) ==
    ~({"word", "translation", "level", "next_review"} \subseteq DOMAIN data)

from_dict_new_counts(data) ==
    [word |-> data.word, translation |-> data.translation,
     level |-> data.level,
     next_review |-> fromisoformat(data.next_review),
     reviews |-> 0, correct |-> 0]

from_dict(data) ==
    [word |-> data.word, translation |-> data.translation,
     level |-> data.level,
     next_review |-> fromisoformat(data.next_review),
     reviews |-> IF "reviews" \in DOMAIN data THEN data.reviews ELSE 0,
     correct |-> IF "correct" \in DOMAIN data THEN data.correct ELSE 0]

\* save_cards: the content json.dump leaves in flashcards.json.
save_cards(cs) == [i \in 1..Len(cs) |-> to_dict(cs[i])]

\* load_cards: [] when the file does not exist.
load_cards_of(exists, content) ==
    IF exists THEN [i \in 1..Len(content) |-> from_dict(content[i])]
    ELSE <<>>

load_cards == load_cards_of(file_exists, file)

\* load_cards as a call with an outcome: only FileNotFoundError is caught
\* (line 61); open() on a file that cannot be read, json.load on text that
\* is not a complete JSON document and data['k'] on a missing key raise.
Raised(exception) ==
    [called |-> TRUE, status |-> exception, cards |-> <<>>]

Loaded(cs) == [called |-> TRUE, status |-> "ok", cards |-> cs]

load_file_catch_all(exists, cond, content) ==
    IF exists /\ cond = "json"
              /\ \A i \in 1..Len(content) : ~from_dict_raises(content[i])
    THEN Loaded(load_cards_of(TRUE, content))
    ELSE Loaded(<<>>)

load_file(exists, cond, content) ==
    IF ~exists THEN Loaded(<<>>)
    ELSE IF cond = "denied" THEN Raised("PermissionError")
    ELSE IF cond = "partial" THEN Raised("JSONDecodeError")
    ELSE IF \E i \in 1..Len(content) : from_dict_raises(content[i])
    THEN Raised("KeyError")
    ELSE Loaded(load_cards_of(TRUE, content))

load_cards_raises ==
    file_exists /\ \E i \in 1..Len(file) : from_dict_raises(file[i])

\* ------------------------------------------------------ scheduler -------
\* The level update_card_status assigns at lines 66-70.
new_level_unclamped(card, correct) ==
    IF correct THEN card.level + 1 ELSE card.level - 1

new_level_reset(card, correct) ==
    IF correct THEN pymin(Len(INTERVALS) - 1, card.level + 1) ELSE 0

new_level(card, correct) ==
    IF correct
    THEN pymin(Len(INTERVALS) - 1, card.level + 1)
    ELSE pymax(0, card.level - 1)

\* INTERVALS[card.level] at line 71 raises IndexError outside the table.
update_card_status_raises(card, correct) ==
    IndexRaises(INTERVALS, new_level(card, correct))

update_card_status_counts_all(card, correct, t) ==
    [card EXCEPT
        !.reviews = card.reviews + 1,
        !.correct = card.correct + 1,
        !.level = new_level(card, correct),
        !.next_review =
            t + timedelta(pyindex(INTERVALS, new_level(card, correct)))]

update_card_status_old_level(card, correct, t) ==
    [card EXCEPT
        !.reviews = card.reviews + 1,
        !.correct = IF correct THEN card.correct + 1 ELSE card.correct,
        !.level = new_level(card, correct),
        !.next_review = t + timedelta(pyindex(INTERVALS, card.level))]

update_card_status(card, correct, t) ==
    [card EXCEPT
        !.reviews = card.reviews + 1,
        !.correct = IF correct THEN card.correct + 1 ELSE card.correct,
        !.level = new_level(card, correct),
        !.next_review =
            t + timedelta(pyindex(INTERVALS, new_level(card, correct)))]

\* ----------------------------------------------------------- quiz -------
\* next(card for card in cards if card.word == current_word): the index of
\* the first card with that word, 0 when the generator is exhausted.
first_match_default(cs, current_word) ==
    IF \E i \in 1..Len(cs) : cs[i].word = current_word
    THEN CHOOSE i \in 1..Len(cs) :
            /\ cs[i].word = current_word
            /\ \A j \in 1..(i - 1) : cs[j].word # current_word
    ELSE IF cs = <<>> THEN 0 ELSE 1

first_match(cs, current_word) ==
    IF \E i \in 1..Len(cs) : cs[i].word = current_word
    THEN CHOOSE i \in 1..Len(cs) :
            /\ cs[i].word = current_word
            /\ \A j \in 1..(i - 1) : cs[j].word # current_word
    ELSE 0

\* next() on the exhausted generator raises StopIteration (line 74).
create_quiz_raises(cs, current_word) == first_match(cs, current_word) = 0

available_cards_all(cs, current_word) == cs

available_cards(cs, current_word) ==
    SelectSeq(cs, LAMBDA card : card.word # current_word)

\* random.sample(population, k): k positions of the population, none twice.
random_sample(population, k) ==
    {[i \in 1..k |-> population[f[i]]] :
        f \in {g \in [1..k -> 1..Len(population)] :
                  \A a, b \in 1..k : a # b => g[a] # g[b]}}

\* random.shuffle(x): any order of the same entries.
random_shuffle(x) ==
    {[i \in 1..Len(x) |-> x[p[i]]] : p \in Permutations(1..Len(x))}

\* create_quiz: the (options, correct_answer) pairs it can return.
create_quiz(cs, current_word) ==
    LET correct_card == cs[first_match(cs, current_word)]
        available == available_cards(cs, current_word)
        pool == [i \in 1..Len(available) |-> available[i].translation]
    IN  UNION {
          {[options |-> o, correct_answer |-> correct_card.translation] :
              o \in random_shuffle(<<correct_card.translation>> \o drawn)} :
          drawn \in random_sample(pool, pymin(3, Len(available)))}

QuizResult(cs, current_word, raised, r) ==
    [called |-> TRUE, cards |-> cs, target |-> current_word,
     raised |-> raised, options |-> r.options,
     correct_answer |-> r.correct_answer]

NoResult == [options |-> <<>>, correct_answer |-> ""]

NoOutcome == [called |-> FALSE]
NoQuiz == [called |-> FALSE]
NoCard == [kind |-> "none"]
NoStats == [shown |-> FALSE]
NoSaver == [pc |-> "idle"]
NoLoad == [called |-> FALSE]

\* every specification starts with a file holding complete JSON text (if
\* it exists), nobody writing it and nothing loaded or shown
QuietInit ==
    /\ stats = NoStats
    /\ typed = <<>>
    /\ file_cond = "json"
    /\ saver = NoSaver
    /\ load_result = NoLoad

Outcome(idx, before, after, correct, t, stale) ==
    [called |-> TRUE, idx |-> idx, before |-> before, after |-> after,
     correct |-> correct, at |-> t, stale |-> stale]

\* ------------------------------------------------------------------------
\* Spec: the session.  Every interaction runs main() from the top; the list
\* `cards` is rebuilt from flashcards.json by each run, st.session_state is
\* what survives from one run to the next.  A run's widget values are its
\* inputs; each Click action is the run in which the named handler executes.
\* ------------------------------------------------------------------------
NoClicks ==
    [word |-> "", translation |-> "", add |-> FALSE, show |-> FALSE,
     remembered |-> FALSE, forgot |-> FALSE, submit |-> FALSE,
     previous |-> FALSE, next |-> FALSE]

\* st.session_state.current_card holds an object.  Within a run it is
\* either an element of this run's `cards` (kind "ref") or an object that an
\* earlier run put there (kind "obj": a Flashcard no list of this run
\* contains); idx is the position the object was taken from.
Ref(i) == [kind |-> "ref", idx |-> i]
Detach(cur, cs) ==
    IF cur.kind = "ref"
    THEN [kind |-> "obj", idx |-> cur.idx, card |-> cs[cur.idx]]
    ELSE cur
ObjectOf(cur, cs) == IF cur.kind = "ref" THEN cs[cur.idx] ELSE cur.card

\* line 128: positions of the cards with next_review <= datetime.now()
is_due_strict(card, t) == card.next_review < t

is_due(card, t) == card.next_review <= t

due_of(cs, t) ==
    SelectSeq([i \in 1..Len(cs) |-> i], LAMBDA i : is_due(cs[i], t))

Range(seq) == {seq[i] : i \in 1..Len(seq)}

\* ------------------------------------------------------ statistics ------
\* lines 101-109.  A quotient is kept as the pair <<numerator, denominator>>
\* so that the average is exact; the rounding of the float arithmetic and of
\* the display format is not modelled.
RECURSIVE pysum(_)
pysum(xs) == IF xs = <<>> THEN 0 ELSE xs[1] + pysum(Tail(xs))

frac_add(a, b) == <<a[1] * b[2] + b[1] * a[2], a[2] * b[2]>>

RECURSIVE frac_sum(_)
frac_sum(qs) ==
    IF qs = <<>> THEN <<0, 1>> ELSE frac_add(qs[1], frac_sum(Tail(qs)))

\* line 104: card.correct/card.reviews if card.reviews > 0 else 0
card_accuracy_unguarded(card) == <<card.correct, card.reviews>>

card_accuracy(card) ==
    IF card.reviews > 0 THEN <<card.correct, card.reviews>> ELSE <<0, 1>>

\* np.mean(...) * 100
np_mean_times_100(qs) ==
    LET total == frac_sum(qs) IN <<100 * total[1], total[2] * Len(qs)>>

compute_stats_raises(cs) ==
    \E i \in 1..Len(cs) : card_accuracy(cs[i])[2] = 0

compute_stats(cs) ==
    IF cs = <<>> THEN NoStats
    ELSE IF compute_stats_raises(cs)
    THEN [shown |-> TRUE, error |-> "ZeroDivisionError"]
    ELSE [shown |-> TRUE, error |-> "none",
          total_cards |-> Len(cs),
          total_reviews |-> pysum([i \in 1..Len(cs) |-> cs[i].reviews]),
          avg_accuracy |->
              np_mean_times_100([i \in 1..Len(cs) |-> card_accuracy(cs[i])])]

\* the state a run leaves behind
EndRun(inp, ex, f, cs, cur, qs, tr, vi, t1c, due, lo, qz, pr, err) ==
    /\ file_exists' = ex
    /\ file' = f
    /\ cards' = cs
    /\ current_card' = Detach(cur, cs)
    /\ quiz_score' = qs
    /\ total_reviews' = tr
    /\ view_index' = vi
    /\ tab1_cards' = t1c
    /\ due_cards' = due
    /\ last_outcome' = lo
    /\ quiz' = qz
    /\ presented' = pr
    /\ error' = err
    /\ stats' = compute_stats(t1c)
    /\ typed' = IF inp.add THEN <<inp.word, inp.translation>> ELSE <<>>
    /\ UNCHANGED <<now, iovars>>

\* lines 192-217, View Flashcards
previous_index(vi) == pymax(0, vi - 1)

next_index_unclamped(vi, n) == vi + 1

next_index(vi, n) == pymin(n - 1, vi + 1)

tab3(inp, ss, ex, f, cs, cur, qs, tr, t1c, due, lo, qz, pr) ==
    LET vi == IF cs = <<>> \/ IndexRaises(cs, ss.view_index)
              THEN ss.view_index
              ELSE IF inp.previous THEN previous_index(ss.view_index)
              ELSE IF inp.next THEN next_index(ss.view_index, Len(cs))
              ELSE ss.view_index
        err == IF cs # <<>> /\ IndexRaises(cs, ss.view_index)
               THEN "IndexError" ELSE "none"
    IN  EndRun(inp, ex, f, cs, cur, qs, tr, vi, t1c, due, lo, qz, pr, err)

\* lines 171-174: the score after Submit Answer
quiz_score_always(score, user_answer, correct_answer) == score + 1

quiz_score_after(score, user_answer, correct_answer) ==
    IF user_answer = correct_answer THEN score + 1 ELSE score

\* line 184: quiz_score / total_reviews raises ZeroDivisionError
accuracy_raises(score, total) == total = 0

\* the answer the Submit Answer handler of the run compared
Submitted(user_answer, correct_answer) ==
    [called |-> FALSE, user_answer |-> user_answer,
     correct_answer |-> correct_answer]

IsSubmitted(q) == "user_answer" \in DOMAIN q

\* lines 159-190, Quiz Mode.  The st.rerun() of line 188 ends the run
\* before tab3 and changes nothing by itself.
tab2(inp, ss, ex, f, cs, cur, t1c, due, lo, pr) ==
    IF cs = <<>>
    THEN tab3(inp, ss, ex, f, cs, cur, ss.quiz_score, ss.total_reviews,
              t1c, due, lo, NoQuiz, pr)
    ELSE \E pick \in (IF cur.kind = "none" THEN 1..Len(cs) ELSE {cur.idx}) :
         LET cur3 == IF cur.kind = "none" THEN Ref(pick) ELSE cur
             card == ObjectOf(cur3, cs)
         IN  IF create_quiz_raises(cs, card.word)
             THEN EndRun(inp, ex, f, cs, cur3, ss.quiz_score, ss.total_reviews,
                         ss.view_index, t1c, due, lo,
                         QuizResult(cs, card.word, TRUE, NoResult), pr,
                         "StopIteration")
             ELSE IF ~inp.submit
             THEN tab3(inp, ss, ex, f, cs, cur3, ss.quiz_score,
                       ss.total_reviews, t1c, due, lo, NoQuiz, pr)
             ELSE \E r \in create_quiz(cs, card.word) :
                  \E user_answer \in Range(r.options) :
                  LET qs == quiz_score_after(ss.quiz_score, user_answer,
                                             r.correct_answer)
                      tr == ss.total_reviews + 1
                      qz == Submitted(user_answer, r.correct_answer)
                  IN  /\ ss.total_reviews < MaxQuiz
                      /\ IF accuracy_raises(qs, tr)
                         THEN EndRun(inp, ex, f, cs, NoCard, qs, tr,
                                     ss.view_index, t1c, due, lo, qz, pr,
                                     "ZeroDivisionError")
                         ELSE tab3(inp, ss, ex, f, cs, NoCard, qs, tr, t1c,
                                   due, lo, qz, pr)

\* lines 126-157, Review Cards
tab1(inp, ss, ex, f, cs) ==
    LET due == due_of(cs, now)
    IN  IF due = <<>>
        THEN tab2(inp, ss, ex, f, cs, ss.current_card, cs, due, NoOutcome,
                  NoCard)
        ELSE \E pick \in (IF ss.current_card.kind = "none"
                           THEN Range(due) ELSE {ss.current_card.idx}) :
             LET cur1 == IF ss.current_card.kind = "none"
                         THEN Ref(pick) ELSE ss.current_card
                 card == ObjectOf(cur1, cs)
                 pr == [kind |-> "shown", idx |-> cur1.idx,
                        revealed |-> inp.show]
                 correct == inp.remembered
                 after == update_card_status(card, correct, now)
                 cs2 == IF cur1.kind = "ref"
                        THEN [cs EXCEPT ![cur1.idx] = after] ELSE cs
             IN  IF ~(inp.show /\ (inp.remembered \/ inp.forgot))
                 THEN tab2(inp, ss, ex, f, cs, cur1, cs, due, NoOutcome, pr)
                 ELSE /\ card.reviews < MaxReviews
                      /\ IF update_card_status_raises(card, correct)
                         THEN EndRun(inp, ex, f, cs, cur1, ss.quiz_score,
                                     ss.total_reviews, ss.view_index, cs, due,
                                     NoOutcome, NoQuiz, pr, "IndexError")
                         ELSE EndRun(inp, TRUE, save_cards(cs2), cs2, NoCard,
                                     ss.quiz_score, ss.total_reviews,
                                     ss.view_index,
                                     cs, due,
                                     Outcome(cur1.idx, card, after, correct,
                                             now, cur1.kind = "obj"),
                                     NoQuiz, pr, "none")

\* lines 93-94: Add Card was clicked and both texts are non-empty
add_accepted(inp) == inp.add /\ inp.word # "" /\ inp.translation # ""

\* lines 82-217: one run of the script
main(inp, ss) ==
    IF load_cards_raises
    THEN EndRun(inp, file_exists, file, <<>>, ss.current_card, ss.quiz_score,
                ss.total_reviews, ss.view_index, <<>>, <<>>, NoOutcome, NoQuiz,
                NoCard, "KeyError")
    ELSE LET cs0 == load_cards
             added == add_accepted(inp)
             cs1 == IF added
                    THEN Append(cs0, Flashcard(inp.word, inp.translation,
                                               now))
                    ELSE cs0
         IN  /\ added => Len(cs0) < MaxCards
             /\ IF added
                THEN tab1(inp, ss, TRUE, save_cards(cs1), cs1)
                ELSE tab1(inp, ss, file_exists, file, cs1)

Init ==
    /\ file_exists = FALSE /\ file = <<>>
    /\ cards = <<>>
    /\ current_card = NoCard
    /\ quiz_score = 0 /\ total_reviews = 0 /\ view_index = 0
    /\ now = 0
    /\ tab1_cards = <<>> /\ due_cards = <<>>
    /\ last_outcome = NoOutcome /\ quiz = NoQuiz
    /\ presented = NoCard
    /\ error = "none"
    /\ QuietInit

\* st.session_state as the run finds it
session_state ==
    [current_card |-> current_card, quiz_score |-> quiz_score,
     total_reviews |-> total_reviews, view_index |-> view_index]

\* lines 10-21: st.session_state of a session that starts
new_session_state ==
    [current_card |-> NoCard, quiz_score |-> 0, total_reviews |-> 0,
     view_index |-> 0]

\* a run no button click started
Rerun == main(NoClicks, session_state)

\* what the learner types into the two text inputs before Add Card
Typed ==
    {<<"casa", "house">>, <<"gato", "cat">>, <<"", "house">>, <<"casa", "">>}

ClickAddCard ==
    \E wt \in Typed :
        main([NoClicks EXCEPT !.add = TRUE, !.word = wt[1],
                              !.translation = wt[2]], session_state)

ClickShowTranslation == main([NoClicks EXCEPT !.show = TRUE], session_state)

ClickRemembered ==
    main([NoClicks EXCEPT !.show = TRUE, !.remembered = TRUE],
         session_state)

ClickForgot ==
    main([NoClicks EXCEPT !.show = TRUE, !.forgot = TRUE], session_state)

ClickSubmitAnswer == main([NoClicks EXCEPT !.submit = TRUE], session_state)

ClickPrevious == main([NoClicks EXCEPT !.previous = TRUE], session_state)

ClickNext == main([NoClicks EXCEPT !.next = TRUE], session_state)

\* the first run of a new browser session: the file stays, session_state
\* starts over
NewSession == main(NoClicks, new_session_state)

Tick ==
    /\ now < MaxNow
    /\ now' = now + 1
    /\ UNCHANGED <<file_exists, file, cards, current_card, quiz_score,
                   total_reviews, view_index, tab1_cards, due_cards,
                   last_outcome, quiz, presented, error, stats, typed,
                   iovars>>

Next ==
    \/ Rerun
    \/ ClickAddCard
    \/ ClickShowTranslation
    \/ ClickRemembered
    \/ ClickForgot
    \/ ClickSubmitAnswer
    \/ ClickPrevious
    \/ ClickNext
    \/ NewSession
    \/ Tick

Spec == Init /\ [][Next]_vars

\* ------------------------------------------------------------------------
\* Properties of the session
\* ------------------------------------------------------------------------
\* every step but Tick is one run of main()
IsRun == now' = now

SchedFields(card) ==
    <<card.level, card.next_review, card.reviews, card.correct>>

\* C5 as stated: when a run records an outcome and saves, the snapshot's
\* record of the presented card carries the updated level, next_review,
\* reviews and correct, so the next load returns the card as updated.
C5_OutcomePersisted ==
    last_outcome.called =>
        /\ file_exists
        /\ last_outcome.idx \in 1..Len(file)
        /\ file[last_outcome.idx] = to_dict(last_outcome.after)
        /\ load_cards[last_outcome.idx] = last_outcome.after

\* C6: in every run due_cards holds exactly the cards with
\* next_review <= now, each once; a card the previous run left out is in
\* once now has reached its next_review, if that was not changed meanwhile.
DueExact ==
    /\ Range(due_cards) =
          {i \in 1..Len(tab1_cards) : tab1_cards[i].next_review <= now}
    /\ \A a, b \in 1..Len(due_cards) : a # b => due_cards[a] # due_cards[b]

C6_DueExactly ==
    [][IsRun =>
         /\ DueExact'
         /\ \A i \in 1..Len(tab1_cards) :
               (/\ i \notin Range(due_cards)
                /\ i \in 1..Len(tab1_cards')
                /\ tab1_cards'[i].next_review = tab1_cards[i].next_review
                /\ now' >= tab1_cards[i].next_review)
               => i \in Range(due_cards')]_vars

\* a reviewed card is due again next to a card that is not
C6_Witness ==
    /\ Len(tab1_cards) = 2
    /\ Len(due_cards) = 1
    /\ tab1_cards[due_cards[1]].reviews >= 1
    /\ tab1_cards[due_cards[1]].next_review = now
    /\ DueExact

\* C7: a step that is not a run calling update_card_status (a run that
\* adds a card, builds a quiz, takes a quiz answer, browses or only
\* displays, or time passing) leaves level, next_review, reviews and correct
\* of every existing card as they were, in the list and in the snapshot.
C7_OnlyOutcomeChangesSchedule ==
    [][~(IsRun /\ last_outcome'.called) =>
         /\ \A i \in 1..Len(cards) :
               /\ i \in 1..Len(cards')
               /\ SchedFields(cards'[i]) = SchedFields(cards[i])
         /\ \A i \in 1..Len(file) :
               /\ file_exists'
               /\ i \in 1..Len(file')
               /\ SchedFields(file'[i]) = SchedFields(file[i])
               /\ SchedFields(load_cards_of(file_exists', file')[i]) =
                     SchedFields(load_cards[i])]_vars

\* a card was added, and a quiz answer taken, after a card had been
\* reviewed
C7_Witness ==
    /\ Len(cards) = 2
    /\ cards[1].reviews >= 1
    /\ cards[2].reviews = 0
    /\ total_reviews >= 1
    /\ ~last_outcome.called
    /\ file = save_cards(cards)

\* C10: loading what save_cards wrote for the collection gives a
\* collection of the same length and order with the same six fields.
C10_RoundTrip ==
    LET loaded == load_cards_of(TRUE, save_cards(cards))
    IN  /\ Len(loaded) = Len(cards)
        /\ \A i \in 1..Len(cards) :
              /\ loaded[i].word = cards[i].word
              /\ loaded[i].translation = cards[i].translation
              /\ loaded[i].level = cards[i].level
              /\ loaded[i].next_review = cards[i].next_review
              /\ loaded[i].reviews = cards[i].reviews
              /\ loaded[i].correct = cards[i].correct

\* two cards, one reviewed, with a next_review that has a sub-unit part
C10_Witness ==
    /\ Len(cards) = 2
    /\ \E i \in 1..2 : cards[i].reviews >= 1 /\ cards[i].level = 1
    /\ \E i \in 1..2 : cards[i].next_review % TicksPerDay # 0
    /\ file_exists /\ file = save_cards(cards)

\* ------------------------------------------------------------------------
\* SchedSpec: update_card_status applied to one card, created by
\* Flashcard(word, translation), with any sequence of outcomes at any times.
\* ------------------------------------------------------------------------
SchedInit ==
    /\ \E w \in Words, t \in Translations : cards = <<Flashcard(w, t, 0)>>
    /\ now = 0
    /\ file_exists = FALSE /\ file = <<>>
    /\ current_card = NoCard
    /\ quiz_score = 0 /\ total_reviews = 0 /\ view_index = 0
    /\ tab1_cards = <<>> /\ due_cards = <<>>
    /\ last_outcome = NoOutcome /\ quiz = NoQuiz
    /\ presented = NoCard
    /\ error = "none"
    /\ QuietInit

SchedOutcome(correct) ==
    /\ error = "none"
    /\ cards[1].reviews < SchedMaxReviews
    /\ IF update_card_status_raises(cards[1], correct)
       THEN /\ error' = "IndexError"
            /\ UNCHANGED <<cards, last_outcome>>
       ELSE /\ cards' = <<update_card_status(cards[1], correct, now)>>
            /\ last_outcome' = Outcome(1, cards[1], cards'[1], correct, now,
                                       FALSE)
            /\ UNCHANGED error
    /\ UNCHANGED <<file_exists, file, current_card, quiz_score,
                   total_reviews, view_index, now, tab1_cards, due_cards,
                   quiz, presented, stats, typed, iovars>>

SchedTick ==
    /\ now < SchedMaxNow
    /\ now' = now + 1
    /\ UNCHANGED <<file_exists, file, cards, current_card, quiz_score,
                   total_reviews, view_index, tab1_cards, due_cards,
                   last_outcome, quiz, presented, error, stats, typed,
                   iovars>>

SchedNext == (\E correct \in BOOLEAN : SchedOutcome(correct)) \/ SchedTick

SchedSpec == SchedInit /\ [][SchedNext]_vars

\* ------------------------------------------------------------------------
\* Properties of the scheduler
\* ------------------------------------------------------------------------

\* C1: after any sequence of outcomes on a card made by Flashcard(), the
\* level is an index of INTERVALS, correct <= reviews, and no call raised.
C1_LevelAndCountsInRange ==
    /\ error = "none"
    /\ \A i \in 1..Len(cards) :
          /\ cards[i].level >= 0
          /\ cards[i].level <= Len(INTERVALS) - 1
          /\ cards[i].correct <= cards[i].reviews

\* a card that went down at level 0, then up to the top and was held there
C1_Witness ==
    /\ Len(cards) = 1
    /\ cards[1].level = Len(INTERVALS) - 1
    /\ cards[1].reviews > Len(INTERVALS)
    /\ cards[1].correct < cards[1].reviews
    /\ last_outcome.called /\ last_outcome.before.level = Len(INTERVALS) - 1
    /\ last_outcome.correct

\* C2: a correct outcome moves the level up one step, saturating at the
\* top of the table; an incorrect one moves it down exactly one step,
\* saturating at 0 (never straight to 0 from above level 1).
C2_LevelStep ==
    last_outcome.called =>
        LET l0 == last_outcome.before.level
            l1 == last_outcome.after.level
            top == Len(INTERVALS) - 1
        IN  /\ last_outcome.correct =>
                 /\ l1 >= l0
                 /\ l1 = (IF l0 < top THEN l0 + 1 ELSE top)
            /\ ~last_outcome.correct =>
                 /\ l1 <= l0
                 /\ l1 = (IF l0 > 0 THEN l0 - 1 ELSE 0)
                 /\ (l0 > 1 => l1 > 0)
            /\ l1 - l0 \in {-1, 0, 1}

\* an incorrect outcome on a card at level 3 or above
C2_Witness ==
    /\ last_outcome.called
    /\ ~last_outcome.correct
    /\ last_outcome.before.level >= 3
    /\ last_outcome.after.level = last_outcome.before.level - 1

\* C3: every outcome adds one to reviews; it adds one to correct when the
\* outcome is correct and leaves correct alone otherwise.
C3_CountersStep ==
    last_outcome.called =>
        /\ last_outcome.after.reviews = last_outcome.before.reviews + 1
        /\ last_outcome.correct =>
             last_outcome.after.correct = last_outcome.before.correct + 1
        /\ ~last_outcome.correct =>
             last_outcome.after.correct = last_outcome.before.correct

\* an incorrect outcome on a card that already has correct answers
C3_Witness ==
    /\ last_outcome.called
    /\ ~last_outcome.correct
    /\ last_outcome.before.correct >= 2
    /\ last_outcome.after.reviews >= 3

\* C4: next_review is the time of the outcome plus the interval of the
\* level after the transition; a level-0 card answered correctly gets
\* level 1 and 3 days, a level-1 card answered incorrectly level 0 and 1 day.
C4_NextReviewFromNewLevel ==
    last_outcome.called =>
        LET b == last_outcome.before
            a == last_outcome.after
        IN  /\ a.next_review =
                 last_outcome.at + INTERVALS[a.level + 1] * TicksPerDay
            /\ (b.level = 0 /\ last_outcome.correct) =>
                 /\ a.level = 1
                 /\ a.next_review = last_outcome.at + 3 * TicksPerDay
            /\ (b.level = 1 /\ ~last_outcome.correct) =>
                 /\ a.level = 0
                 /\ a.next_review = last_outcome.at + 1 * TicksPerDay

\* the second step of the scenario: level 1, incorrect at a later time
C4_Witness ==
    /\ last_outcome.called
    /\ ~last_outcome.correct
    /\ last_outcome.before.level = 1
    /\ last_outcome.before.reviews = 1
    /\ last_outcome.at > 0
    /\ last_outcome.after.next_review = last_outcome.at + TicksPerDay

\* ------------------------------------------------------------------------
\* QuizSpec: create_quiz applied to collections of up to QuizMaxCards cards
\* and any target word.  Translations are named by numbers here; card i
\* has its own translation i or shares the translation of the first card.
\* ------------------------------------------------------------------------
QuizWords == Words \cup {"perro"}

QuizCollections ==
    UNION {
      {c \in [1..n -> [word : Words, translation : 1..n, level : {0},
                       next_review : {0}, reviews : {0}, correct : {0}]] :
          \A i \in 1..n : c[i].translation \in {1, i}} :
      n \in 0..QuizMaxCards}

QuizInit ==
    /\ cards \in QuizCollections
    /\ now = 0
    /\ file_exists = FALSE /\ file = <<>>
    /\ current_card = NoCard
    /\ quiz_score = 0 /\ total_reviews = 0 /\ view_index = 0
    /\ tab1_cards = <<>> /\ due_cards = <<>>
    /\ last_outcome = NoOutcome /\ quiz = NoQuiz
    /\ presented = NoCard
    /\ error = "none"
    /\ QuietInit

QuizCreate(current_word) ==
    /\ IF create_quiz_raises(cards, current_word)
       THEN /\ error' = "StopIteration"
            /\ quiz' = QuizResult(cards, current_word, TRUE, NoResult)
       ELSE /\ error' = "none"
            /\ \E r \in create_quiz(cards, current_word) :
                  quiz' = QuizResult(cards, current_word, FALSE, r)
    /\ UNCHANGED <<file_exists, file, cards, current_card, quiz_score,
                   total_reviews, view_index, now, tab1_cards, due_cards,
                   last_outcome, presented, stats, typed,
                   iovars>>

QuizNext == \E current_word \in QuizWords : QuizCreate(current_word)

QuizSpec == QuizInit /\ [][QuizNext]_vars

\* ------------------------------------------------------------------------
\* Properties of the quiz builder
\* ------------------------------------------------------------------------
Count(seq, x) == Cardinality({i \in 1..Len(seq) : seq[i] = x})

DistinctTranslations(cs) ==
    \A i, j \in 1..Len(cs) : i # j => cs[i].translation # cs[j].translation

OtherCards(cs, w) == {i \in 1..Len(cs) : cs[i].word # w}

\* C8: when a card has the target word, the quiz has one option for the
\* answer plus min(3, number of cards with another word) distractors, the
\* answer is the translation of a card with the target word, it occurs
\* exactly once among the options when all translations are distinct, and
\* a single-card collection gives exactly that card's translation.
C8_QuizShape ==
    (quiz.called /\ \E i \in 1..Len(quiz.cards) :
                        quiz.cards[i].word = quiz.target) =>
        LET n == Cardinality(OtherCards(quiz.cards, quiz.target))
        IN  /\ ~quiz.raised
            /\ Len(quiz.options) = 1 + (IF n < 3 THEN n ELSE 3)
            /\ \E i \in 1..Len(quiz.cards) :
                  /\ quiz.cards[i].word = quiz.target
                  /\ quiz.cards[i].translation = quiz.correct_answer
            /\ DistinctTranslations(quiz.cards) =>
                  Count(quiz.options, quiz.correct_answer) = 1
            /\ Len(quiz.cards) = 1 =>
                  quiz.options = <<quiz.cards[1].translation>>

\* five cards with distinct translations, four of them with another word
C8_Witness ==
    /\ quiz.called /\ ~quiz.raised
    /\ Len(quiz.cards) >= 5
    /\ DistinctTranslations(quiz.cards)
    /\ Cardinality(OtherCards(quiz.cards, quiz.target)) >= 4
    /\ Len(quiz.options) = 4
    /\ quiz.options[4] = quiz.correct_answer

SaveInit ==
    /\ file_exists = FALSE /\ file = <<>>
    /\ cards = <<>>
    /\ current_card = NoCard
    /\ quiz_score = 0 /\ total_reviews = 0 /\ view_index = 0
    /\ now = 0
    /\ tab1_cards = <<>> /\ due_cards = <<>>
    /\ last_outcome = NoOutcome /\ quiz = NoQuiz
    /\ presented = NoCard
    /\ error = "none"
    /\ QuietInit

SaveFrame ==
    UNCHANGED <<current_card, quiz_score, total_reviews, view_index, now,
                tab1_cards, due_cards, last_outcome, quiz, presented, error,
                stats, typed>>

\* lines 86, 95, 54: the run loads, appends the new card and opens the
\* file for writing
SaveOpen(word, translation) ==
    /\ saver.pc = "idle"
    /\ Len(load_cards) < SaveMaxCards
    /\ LET cs == Append(load_cards, Flashcard(word, translation, now))
       IN  /\ cards' = cs
           /\ saver' = [pc |-> "writing", old |-> load_cards, new |-> cs,
                        data |-> save_cards(cs)]
    /\ file_exists' = TRUE
    /\ file' = <<>>
    /\ file_cond' = "partial"
    /\ UNCHANGED load_result
    /\ SaveFrame

\* line 55: the next piece of text reaches the file
SaveWrite ==
    /\ saver.pc = "writing"
    /\ Len(file) < Len(saver.data)
    /\ file' = Append(file, saver.data[Len(file) + 1])
    /\ UNCHANGED <<file_exists, file_cond, cards, saver, load_result>>
    /\ SaveFrame

\* the end of the `with` block: the text is complete
SaveClose ==
    /\ saver.pc = "writing"
    /\ Len(file) = Len(saver.data)
    /\ file_cond' = "json"
    /\ saver' = NoSaver
    /\ UNCHANGED <<file_exists, file, cards, load_result>>
    /\ SaveFrame

\* line 86 in the run of another session
SaveLoad ==
    /\ load_result' =
          load_file(file_exists, file_cond, file) @@
          [during |-> saver.pc = "writing",
           old |-> IF saver.pc = "writing" THEN saver.old ELSE cards,
           new |-> cards]
    /\ UNCHANGED <<file_exists, file, file_cond, cards, saver>>
    /\ SaveFrame

SaveNext ==
    \/ \E wt \in {<<"casa", "house">>, <<"gato", "cat">>} :
          SaveOpen(wt[1], wt[2])
    \/ SaveWrite
    \/ SaveClose
    \/ SaveLoad

SaveSpec == SaveInit /\ [][SaveNext]_vars

\* C11 as stated: a load that falls between the steps of a save returns the
\* complete previous collection or the complete new one.
C11_LoadSeesOldOrNew ==
    (load_result.called /\ load_result.during) =>
        /\ load_result.status = "ok"
        /\ load_result.cards \in {load_result.old, load_result.new}

\* ------------------------------------------------------------------------
\* LoadSpec: load_cards on the files it can find.  flashcards.json is
\* absent, unreadable, incomplete JSON text, or a JSON list of up to
\* LoadMaxRecords records, each the record of a card or that record with
\* one key left out.
\* ------------------------------------------------------------------------
Fields == {"word", "translation", "level", "next_review", "reviews", "correct"}

Without(data, k) == [f \in (DOMAIN data) \ {k} |-> data[f]]

LoadRecords ==
    LET full == to_dict([word |-> "casa", translation |-> "house",
                         level |-> 1, next_review |-> timedelta(1) + 1,
                         reviews |-> 2, correct |-> 1])
    IN  {full} \cup {Without(full, k) : k \in Fields}

LoadContents ==
    UNION {[1..n -> LoadRecords] : n \in 0..LoadMaxRecords}

LoadInit ==
    /\ file_exists \in BOOLEAN
    /\ file_cond \in {"json", "partial", "denied"}
    /\ file \in LoadContents
    /\ ~file_exists => (file = <<>> /\ file_cond = "json")
    /\ cards = <<>>
    /\ current_card = NoCard
    /\ quiz_score = 0 /\ total_reviews = 0 /\ view_index = 0
    /\ now = 0
    /\ tab1_cards = <<>> /\ due_cards = <<>>
    /\ last_outcome = NoOutcome /\ quiz = NoQuiz
    /\ presented = NoCard
    /\ error = "none"
    /\ stats = NoStats
    /\ typed = <<>>
    /\ saver = NoSaver
    /\ load_result = NoLoad

\* line 86: cards = load_cards()
LoadCall ==
    /\ ~load_result.called
    /\ load_result' = load_file(file_exists, file_cond, file)
    /\ cards' = load_result'.cards
    /\ error' = IF load_result'.status = "ok" THEN "none"
                ELSE load_result'.status
    /\ UNCHANGED <<file_exists, file, file_cond, saver, current_card,
                   quiz_score, total_reviews, view_index, now, tab1_cards,
                   due_cards, last_outcome, quiz, presented, stats, typed>>

LoadNext == LoadCall

LoadSpec == LoadInit /\ [][LoadNext]_vars

\* C14: load_cards on an absent file returns the empty list and raises
\* nothing; no other condition of the file is turned into the empty list:
\* when the file exists the call returns [] only for a complete JSON text
\* that is the empty list.
C14_AbsentIsEmpty ==
    load_result.called =>
        /\ ~file_exists =>
              (load_result.status = "ok" /\ load_result.cards = <<>>)
        /\ (load_result.status = "ok" /\ load_result.cards = <<>>) =>
              (~file_exists \/ (file_cond = "json" /\ file = <<>>))
        /\ (file_exists /\ file_cond # "json") => load_result.status # "ok"

\* load_cards was called with no file there
C14_Witness ==
    /\ load_result.called /\ ~file_exists
    /\ load_result.status = "ok" /\ load_result.cards = <<>>
    /\ error = "none"

\* C15 as stated: load_cards on a file that can be read and whose text is
\* incomplete, or in which a record lacks one of the six fields, fails
\* with StorageError and returns no collection.
C15_MissingFieldStorageError ==
    (/\ load_result.called /\ file_exists /\ file_cond # "denied"
     /\ \/ file_cond = "partial"
        \/ \E i \in 1..Len(file) : ~(Fields \subseteq DOMAIN file[i]))
    => (load_result.status = "StorageError" /\ load_result.cards = <<>>)

\* C15, the part of it that the code has: a file whose text is incomplete
\* or in which a record lacks word, translation, level or next_review is
\* not loaded, the call raises.
C15_RequiredFieldRaises ==
    (/\ load_result.called /\ file_exists /\ file_cond # "denied"
     /\ \/ file_cond = "partial"
        \/ \E i \in 1..Len(file) :
              ~({"word", "translation", "level", "next_review"}
                   \subseteq DOMAIN file[i]))
    => load_result.status \in {"JSONDecodeError", "KeyError"}

\* C15, where the code departs from it: a record without reviews or
\* without correct is loaded with 0 in its place.
C15_CountsDefaulted ==
    /\ load_result.called /\ file_exists /\ file_cond = "json"
    /\ Len(file) = 2
    /\ "reviews" \notin DOMAIN file[1]
    /\ "correct" \notin DOMAIN file[2]
    /\ load_result.status = "ok"
    /\ load_result.cards[1].reviews = 0 /\ load_result.cards[1].correct = 1
    /\ load_result.cards[2].reviews = 2 /\ load_result.cards[2].correct = 0

\* ------------------------------------------------------------------------
\* StatsSpec: the Study Statistics of the sidebar on collections of up to
\* StatsMaxCards cards with up to StatsMaxReviews reviews each.
\* ------------------------------------------------------------------------
\* a card after `reviews` outcomes at time 0, the remembered ones last
StatsCard(word, translation, reviews, correct) ==
    IF reviews = 0 THEN Flashcard(word, translation, 0)
    ELSE LET level == pymin(correct, Len(INTERVALS) - 1)
         IN  [word |-> word, translation |-> translation, level |-> level,
              next_review |-> timedelta(INTERVALS[level + 1]),
              reviews |-> reviews, correct |-> correct]

StatsCollections ==
    LET counts == {rc \in (0..StatsMaxReviews) \X (0..StatsMaxReviews) :
                     rc[2] <= rc[1]}
    IN  UNION {{[i \in 1..n |->
                   StatsCard(IF i = 1 THEN "casa" ELSE "gato",
                             IF i = 1 THEN "house" ELSE "cat",
                             q[i][1], q[i][2])] :
                q \in [1..n -> counts]} : n \in 0..StatsMaxCards}

StatsInit ==
    /\ cards \in StatsCollections
    /\ file_exists = TRUE /\ file = save_cards(cards)
    /\ current_card = NoCard
    /\ quiz_score = 0 /\ total_reviews = 0 /\ view_index = 0
    /\ now = 0
    /\ tab1_cards = <<>> /\ due_cards = <<>>
    /\ last_outcome = NoOutcome /\ quiz = NoQuiz
    /\ presented = NoCard
    /\ error = "none"
    /\ QuietInit

\* lines 101-109
StudyStatistics ==
    /\ ~stats.shown /\ error = "none"
    /\ cards # <<>>
    /\ stats' = compute_stats(cards)
    /\ error' = stats'.error
    /\ UNCHANGED <<file_exists, file, cards, current_card, quiz_score,
                   total_reviews, view_index, now, tab1_cards, due_cards,
                   last_outcome, quiz, presented, typed, iovars>>

StatsNext == StudyStatistics

StatsSpec == StatsInit /\ [][StatsNext]_vars

RECURSIVE Factorial(_)
Factorial(n) == IF n = 0 THEN 1 ELSE n * Factorial(n - 1)

\* the sum over the cards of correct/reviews (0 for a card without
\* reviews), times K, for a K every number of reviews divides
RECURSIVE ScaledAccuracySum(_, _)
ScaledAccuracySum(cs, K) ==
    IF cs = <<>> THEN 0
    ELSE (IF cs[1].reviews = 0 THEN 0
          ELSE (K \div cs[1].reviews) * cs[1].correct)
         + ScaledAccuracySum(Tail(cs), K)

\* C17: on a non-empty collection the statistics show total_cards = the
\* number of cards, total_reviews = the sum of the cards' reviews and
\* avg_accuracy = 100 * (sum of correct/reviews, 0 for a card with no
\* reviews) / number of cards, and no division by zero occurs; for cards
\* with (reviews 4, correct 2) and (reviews 0) the average is 25.
C17_ComputeStats ==
    stats.shown =>
        LET K == Factorial(StatsMaxReviews)
        IN  /\ stats.error = "none" /\ error = "none"
            /\ stats.total_cards = Len(cards)
            /\ stats.total_reviews =
                  pysum([i \in 1..Len(cards) |-> cards[i].reviews])
            /\ stats.avg_accuracy[2] > 0
            /\ stats.avg_accuracy[1] * K * Len(cards) =
                  100 * ScaledAccuracySum(cards, K) * stats.avg_accuracy[2]
            /\ (/\ Len(cards) = 2
                /\ cards[1].reviews = 4 /\ cards[1].correct = 2
                /\ cards[2].reviews = 0)
               => stats.avg_accuracy[1] = 25 * stats.avg_accuracy[2]

\* the statistics of the collection of the example
C17_Witness ==
    /\ stats.shown
    /\ Len(cards) = 2
    /\ cards[1].reviews = 4 /\ cards[1].correct = 2
    /\ cards[2].reviews = 0
    /\ stats.total_reviews = 4

\* ------------------------------------------------------------------------
\* Properties of the session: Add Card
\* ------------------------------------------------------------------------
ValidTyped(wt) == wt # <<>> /\ wt[1] # "" /\ wt[2] # ""
EmptyTyped(wt) == wt # <<>> /\ (wt[1] = "" \/ wt[2] = "")

\* C12: a run in which Add Card finds a non-empty word and translation
\* appends exactly one card at the end, with level 0, reviews 0, correct 0
\* and next_review = now, so that it is due in that run; it leaves every
\* card the file held as it was and where it was, and the file then holds
\* the resulting collection.  No run removes a card or moves one.
C12_AddAppends ==
    [][IsRun =>
         /\ ValidTyped(typed') =>
               /\ Len(cards') = Len(load_cards) + 1
               /\ \A i \in 1..Len(load_cards) : cards'[i] = load_cards[i]
               /\ cards'[Len(cards')] =
                     [word |-> typed'[1], translation |-> typed'[2],
                      level |-> 0, next_review |-> now, reviews |-> 0,
                      correct |-> 0]
               /\ Len(cards') \in Range(due_cards')
               /\ file_exists'
               /\ load_cards' = cards'
         /\ \A i \in 1..Len(load_cards) :
               /\ i <= Len(load_cards') /\ i <= Len(cards')
               /\ load_cards'[i].word = load_cards[i].word
               /\ load_cards'[i].translation = load_cards[i].translation
               /\ cards'[i].word = load_cards[i].word
               /\ cards'[i].translation = load_cards[i].translation]_vars

\* a second card was just added behind a card that has been reviewed
C12_Witness ==
    /\ ValidTyped(typed)
    /\ Len(cards) = 2
    /\ cards[1].reviews > 0 /\ cards[1].next_review > now
    /\ cards[2].word = typed[1] /\ cards[2].next_review = now
    /\ now > 0
    /\ due_cards = <<2>>
    /\ load_cards = cards

\* C13 as stated: a run in which Add Card finds an empty word or an empty
\* translation reports a ValidationError and changes neither the collection
\* nor the file.
C13_EmptyAddValidationError ==
    [][(IsRun /\ EmptyTyped(typed')) =>
         /\ error' = "ValidationError"
         /\ cards' = load_cards
         /\ file' = file /\ file_exists' = file_exists]_vars

\* C13, what the code does: such a run changes neither the collection nor
\* the file and reports nothing; no card ever has an empty word or an
\* empty translation.
C13_EmptyAddIgnored ==
    [][IsRun =>
         /\ EmptyTyped(typed') =>
               /\ error' = "none"
               /\ cards' = load_cards
               /\ file' = file /\ file_exists' = file_exists
         /\ \A i \in 1..Len(cards') :
               cards'[i].word # "" /\ cards'[i].translation # ""]_vars

\* Add Card with an empty translation, a card in the collection
C13_Witness ==
    /\ EmptyTyped(typed) /\ typed[2] = ""
    /\ Len(cards) = 1 /\ cards[1].reviews > 0
    /\ error = "none"

\* ------------------------------------------------------------------------
\* Properties of the session: Quiz Mode counters
\* ------------------------------------------------------------------------
QuizCounters ==
    /\ 0 <= quiz_score /\ quiz_score <= total_reviews
    /\ error # "ZeroDivisionError"

\* C16: both counters are 0 when the session starts; a run that handles
\* Submit Answer adds exactly 1 to total_reviews and adds exactly 1 to
\* quiz_score iff the answer equals the correct answer; any other run
\* leaves both as they are or is the first run of a new session, which
\* finds both 0; so 0 <= quiz_score <= total_reviews always, and the
\* accuracy is never divided by a total_reviews of 0.
C16_QuizCounters ==
    [][/\ QuizCounters /\ QuizCounters'
       /\ IsRun =>
             IF IsSubmitted(quiz')
             THEN /\ total_reviews' = total_reviews + 1
                  /\ quiz_score' =
                        IF quiz'.user_answer = quiz'.correct_answer
                        THEN quiz_score + 1 ELSE quiz_score
             ELSE \/ /\ total_reviews' = total_reviews
                     /\ quiz_score' = quiz_score
                  \/ total_reviews' = 0 /\ quiz_score' = 0]_vars

\* a wrong answer was just submitted after a right one
C16_Witness ==
    /\ IsSubmitted(quiz)
    /\ quiz.user_answer # quiz.correct_answer
    /\ total_reviews = 2 /\ quiz_score = 1
    /\ error = "none"

C19_NotDueAfterOutcome ==
    (last_outcome.called /\ now < last_outcome.at + timedelta(1)) =>
        /\ last_outcome.after.next_review > now
        /\ ~is_due(load_cards[last_outcome.idx], now)
        /\ ~is_due(cards[last_outcome.idx], now)

\* ------------------------------------------------------------------------
\* Properties of the session: View Flashcards
\* ------------------------------------------------------------------------
ViewIndexInRange ==
    /\ cards # <<>> => (0 <= view_index /\ view_index <= Len(cards) - 1)
    /\ error # "IndexError"

\* C20: whenever the collection is non-empty view_index is one of its
\* positions 0 .. len(cards) - 1, and cards[view_index] never raises;
\* Previous at 0 and Next at the last position leave view_index as it is,
\* elsewhere they move it by one: no run that handles Previous, and none
\* that handles Next, ends with another view_index.
C20_ViewIndexInRange ==
    [][/\ ViewIndexInRange /\ ViewIndexInRange'
       /\ (/\ cards' # <<>>
           /\ view_index' # (IF view_index = 0 THEN 0 ELSE view_index - 1))
          => ~ClickPrevious
       /\ (/\ cards' # <<>>
           /\ view_index' # (IF view_index = Len(cards') - 1
                             THEN view_index ELSE view_index + 1))
          => ~ClickNext]_vars

\* Next was clicked on the last of two cards
C20_Witness ==
    /\ Len(cards) = 2
    /\ view_index = 1
    /\ typed = <<>>
    /\ error = "none"

====
